---- MODULE Spec2Model ----
(***************************************************************************)
(* Model of the emmy zero-knowledge proof core:                            *)
(*   - PartialECDLogProver / PartialECDLogVerifier                         *)
(*       (crypto/zkp/primitives/dlogproofs/partial_dlog_knowledge_ec.go)   *)
(*   - PedersenECCommitter / PedersenECReceiver                            *)
(*       (crypto/commitments/pedersen_ec.go)                               *)
(*   - Server.SchnorrEC, the verifier side of a Schnorr session            *)
(*       (server/schnorr_ec.go)                                            *)
(*                                                                         *)
(* The elliptic-curve group is the cyclic group of prime order q.  A group *)
(* element is represented by its discrete logarithm to the base point g,   *)
(* so g is 1, the point at infinity is 0, and two points are equal on both *)
(* coordinates exactly when their representations are equal.               *)
(***************************************************************************)
EXTENDS Integers, Sequences, FiniteSets, TLC

VARIABLES
    prover,        \* PartialECDLogProver fields
    verifier,      \* PartialECDLogVerifier fields
    randData,      \* the two triples in flight from prover to verifier
    chal,          \* the challenge in flight from verifier to prover
    proofData,     \* the four scalars (c1, z1, c2, z2) in flight to the verifier
    verified,      \* what Verify returned
    pc,            \* position of the Partial proof session
    committer,     \* PedersenECCommitter fields
    receiver,      \* PedersenECReceiver fields
    ret,           \* the last Pedersen call: its arguments and what it returned
    lastCommit,    \* history: value, randomness and message of the latest successful GetCommitMsg,
                   \* and whether an earlier commitment preceded it
    server,        \* Server.SchnorrEC: protocolType, position, req, the verifier, what it returned
    stream,        \* the messages that passed over the stream of the SchnorrEC session, in order
    call,          \* a caller outside the protocol order: its last call and what it returned
    prior          \* the call before it, when the last call repeated it

partialVars == <<prover, verifier, randData, chal, proofData, verified, pc>>
pedVars == <<committer, receiver, ret, lastCommit>>
serverVars == <<server, stream>>
callVars == <<call, prior>>
vars == <<prover, verifier, randData, chal, proofData, verified, pc,
          committer, receiver, ret, lastCommit, server, stream, call, prior>>

----------------------------------------------------------------------------
(* Bounds *)

\* index of the group order in Primes
QIdx == 2
\* public group elements a1, a2, b2 are drawn from g^0 .. g^MaxElem
MaxElem == 1
\* a peer that is not the honest prover sends challenge shares in 0..MaxC
MaxC == 3
\* ... and responses in 0..MaxZ
MaxZ == 1
\* GetCommitMsg is called with values from -MaxOut .. q+MaxOut
MaxOut == 1
\* a peer that is not the honest committer opens with r and val in 0..MaxArg
MaxArg == 2

Primes == <<3, 5, 7, 11, 13>>

\* dlog.ECDLog.OrderOfSubgroup / GetOrderOfSubgroup()
q == Primes[QIdx]

\* a nil pointer (a *big.Int or *types.ECGroupElement that was never set);
\* lies outside every scalar and group-element domain
Nil == 0 - 100

Scalars == 0 .. (q - 1)
Group == 0 .. (q - 1)
Elems == 0 .. MaxElem

----------------------------------------------------------------------------
(* The group and the helpers of crypto/dlog, crypto/common, types, math/big *)

\* common.GetRandomInt(max): the values it can return, [0, max)
GetRandomInt(max) == 0 .. (max - 1)

\* dlog.Exponentiate(P.X, P.Y, s) = P^s; the exponent is reduced by the group
Exponentiate(P, s) == (P * s) % q

\* dlog.ExponentiateBaseG(s) = g^s
ExponentiateBaseG(s) == s % q

\* dlog.Multiply(P, Q) = P * Q
Multiply(P, Q) == (P + Q) % q

\* dlog.Inverse(P) = P^-1
Inverse(P) == (q - P) % q

\* x.Cmp(P.X) == 0 && y.Cmp(P.Y) == 0
PointEq(P, Q) == P = Q

\* new(big.Int).Xor(a, b) on non-negative integers
RECURSIVE Xor(_, _)
Xor(a, b) ==
    IF a = 0 THEN b
    ELSE IF b = 0 THEN a
    ELSE (((a % 2) + (b % 2)) % 2) + 2 * Xor(a \div 2, b \div 2)

\* types.NewECTriple(x, a, b): fields A, B, C
NewECTriple(x, a, b) == [A |-> x, B |-> a, C |-> b]

NilTriple == [A |-> Nil, B |-> Nil, C |-> Nil]

----------------------------------------------------------------------------
(* PartialECDLogProver *)

NewPartialECDLogProver ==
    [secret1 |-> Nil, a1 |-> Nil, a2 |-> Nil, r1 |-> Nil, c2 |-> Nil, z2 |-> Nil, ord |-> 0]

\* fields of the prover after GetProofRandomData sampled r1, c2, z2 and ord
ProverAfterRandomData(secret1, a1, a2, r1, c2, z2, ord) ==
    [secret1 |-> secret1, a1 |-> a1, a2 |-> a2, r1 |-> r1, c2 |-> c2, z2 |-> z2,
     ord |-> IF ord = 0 THEN 0 ELSE 1]

\* x2 without the inversion of b2^c2
SimulatedXNotInverted(a2, b2, c2, z2) ==
    Multiply(Exponentiate(a2, z2), Exponentiate(b2, c2))

\* x2 = a2^z2 * (b2^c2)^-1
SimulatedX(a2, b2, c2, z2) ==
    Multiply(Exponentiate(a2, z2), Inverse(Exponentiate(b2, c2)))

\* the pair of triples GetProofRandomData returns
RandomDataOrderedAlways(secret1, a1, b1, a2, b2, r1, c2, z2, ord) ==
    LET x1 == Exponentiate(a1, r1)
        x2 == SimulatedX(a2, b2, c2, z2)
    IN  <<NewECTriple(x1, a1, b1), NewECTriple(x2, a2, b2)>>

GetProofRandomDataTriples(secret1, a1, b1, a2, b2, r1, c2, z2, ord) ==
    LET x1 == Exponentiate(a1, r1)
        x2 == SimulatedX(a2, b2, c2, z2)
        triple1 == NewECTriple(x1, a1, b1)
        triple2 == NewECTriple(x2, a2, b2)
    IN  IF ord = 0 THEN <<triple1, triple2>> ELSE <<triple2, triple1>>

\* GetProofData with the challenge split by addition mod q instead of XOR
ProofDataAdditiveSplit(p, challenge) ==
    LET c1 == (p.c2 + challenge) % q
        z1 == (c1 * p.secret1 + p.r1) % q
    IN  IF p.ord = 0 THEN <<c1, z1, p.c2, p.z2>> ELSE <<p.c2, p.z2, c1, z1>>

\* the four scalars GetProofData returns
GetProofDataResult(p, challenge) ==
    LET c1 == Xor(p.c2, challenge)
        z1 == (c1 * p.secret1 + p.r1) % q
    IN  IF p.ord = 0 THEN <<c1, z1, p.c2, p.z2>> ELSE <<p.c2, p.z2, c1, z1>>

----------------------------------------------------------------------------
(* PartialECDLogVerifier *)

NewPartialECDLogVerifier ==
    [triple1 |-> NilTriple, triple2 |-> NilTriple, challenge |-> Nil]

\* verifyTriple with the roles of the triple's first two fields exchanged
verifyTripleSwapped(triple, challenge, z) ==
    LET left == Exponentiate(triple.A, z)
        r == Exponentiate(triple.C, challenge)
        right == Multiply(r, triple.B)
    IN  PointEq(left, right)

verifyTriple(triple, challenge, z) ==
    LET left == Exponentiate(triple.B, z)
        r == Exponentiate(triple.C, challenge)
        right == Multiply(r, triple.A)
    IN  PointEq(left, right)

VerifyResult(v, c1, z1, c2, z2) ==
    LET c == Xor(c1, c2)
    IN  IF c # v.challenge
        THEN FALSE
        ELSE LET verified1 == verifyTriple(v.triple1, c1, z1)
                 verified2 == verifyTriple(v.triple2, c2, z2)
             IN  verified1 /\ verified2

----------------------------------------------------------------------------
(* The Partial proof session *)

NoData == <<>>

PartialInit ==
    /\ prover = NewPartialECDLogProver
    /\ verifier = NewPartialECDLogVerifier
    /\ randData = NoData
    /\ chal = Nil
    /\ proofData = NoData
    /\ verified = FALSE
    /\ pc = "start"

\* no Partial proof objects exist in a Pedersen session
PartialIdle ==
    /\ prover = NewPartialECDLogProver
    /\ verifier = NewPartialECDLogVerifier
    /\ randData = NoData
    /\ chal = Nil
    /\ proofData = NoData
    /\ verified = FALSE
    /\ pc = "idle"

\* prover.GetProofRandomData(secret1, a1, b1, a2, b2), b1 = a1^secret1
GetProofRandomData ==
    /\ pc = "start"
    /\ \E secret1 \in Scalars, a1 \in Elems, a2 \in Elems, b2 \in Elems,
          r1 \in GetRandomInt(q), c2 \in GetRandomInt(q), z2 \in GetRandomInt(q),
          ord \in GetRandomInt(2) :
          LET b1 == Exponentiate(a1, secret1)
          IN  /\ prover' = ProverAfterRandomData(secret1, a1, a2, r1, c2, z2, ord)
              /\ randData' = GetProofRandomDataTriples(secret1, a1, b1, a2, b2, r1, c2, z2, ord)
    /\ pc' = "random"
    /\ UNCHANGED <<verifier, chal, proofData, verified>>
    /\ UNCHANGED pedVars
    /\ UNCHANGED serverVars
    /\ UNCHANGED callVars

\* a peer other than the honest prover sends two arbitrary triples
PeerRandomData ==
    /\ pc = "peer"
    /\ \E x1 \in Elems, a1 \in Elems, b1 \in Elems, x2 \in Elems, a2 \in Elems, b2 \in Elems :
          randData' = <<NewECTriple(x1, a1, b1), NewECTriple(x2, a2, b2)>>
    /\ pc' = "random"
    /\ UNCHANGED <<prover, verifier, chal, proofData, verified>>
    /\ UNCHANGED pedVars
    /\ UNCHANGED serverVars
    /\ UNCHANGED callVars

\* verifier.SetProofRandomData(triple1, triple2)
SetProofRandomData ==
    /\ pc = "random"
    /\ verifier' = [verifier EXCEPT !.triple1 = randData[1], !.triple2 = randData[2]]
    /\ pc' = "set"
    /\ UNCHANGED <<prover, randData, chal, proofData, verified>>
    /\ UNCHANGED pedVars
    /\ UNCHANGED serverVars
    /\ UNCHANGED callVars

\* verifier.GetChallenge()
GetChallenge ==
    /\ pc = "set"
    /\ \E challenge \in GetRandomInt(q) :
          /\ verifier' = [verifier EXCEPT !.challenge = challenge]
          /\ chal' = challenge
    /\ pc' = "challenge"
    /\ UNCHANGED <<prover, randData, proofData, verified>>
    /\ UNCHANGED pedVars
    /\ UNCHANGED serverVars
    /\ UNCHANGED callVars

\* prover.GetProofData(challenge)
GetProofData ==
    /\ pc = "challenge"
    /\ prover.r1 # Nil
    /\ proofData' = GetProofDataResult(prover, chal)
    /\ pc' = "proof"
    /\ UNCHANGED <<prover, verifier, randData, chal, verified>>
    /\ UNCHANGED pedVars
    /\ UNCHANGED serverVars
    /\ UNCHANGED callVars

\* a peer other than the honest prover answers with four arbitrary scalars
PeerProofData ==
    /\ pc = "challenge"
    /\ prover.r1 = Nil
    /\ \E c1 \in 0 .. MaxC, z1 \in 0 .. MaxZ, c2 \in 0 .. MaxC, z2 \in 0 .. MaxZ :
          proofData' = <<c1, z1, c2, z2>>
    /\ pc' = "proof"
    /\ UNCHANGED <<prover, verifier, randData, chal, verified>>
    /\ UNCHANGED pedVars
    /\ UNCHANGED serverVars
    /\ UNCHANGED callVars

\* verifier.Verify(c1, z1, c2, z2)
Verify ==
    /\ pc = "proof"
    /\ verified' = VerifyResult(verifier, proofData[1], proofData[2], proofData[3], proofData[4])
    /\ pc' = "done"
    /\ UNCHANGED <<prover, verifier, randData, chal, proofData>>
    /\ UNCHANGED pedVars
    /\ UNCHANGED serverVars
    /\ UNCHANGED callVars

----------------------------------------------------------------------------
(* PedersenECCommitter *)

NewPedersenECCommitter == [h |-> Nil, committedValue |-> Nil, r |-> Nil]

NoCommit == [v |-> Nil, r |-> Nil, c |-> Nil, again |-> FALSE]

\* what a call leaves behind: the object's new fields, how the call ended
\* ("ok": returned normally, "error": returned a non-nil error,
\* "panic": nil pointer dereference) and the values it returned
Outcome(obj, outcome, out) == [obj |-> obj, outcome |-> outcome, out |-> out]

\* committer.SetH(h)
SetHResult(cm, h) == Outcome([cm EXCEPT !.h = h], "ok", <<>>)

\* GetCommitMsg that stores the value before it checks the range
GetCommitMsgWritesFirst(cm, val, r) ==
    LET stored == [cm EXCEPT !.r = r, !.committedValue = val]
    IN  IF val > q \/ val < 0
        THEN Outcome(stored, "error", <<>>)
        ELSE IF cm.h = Nil
             THEN Outcome(stored, "panic", <<>>)
             ELSE Outcome(stored, "ok",
                          <<Multiply(ExponentiateBaseG(val), Exponentiate(cm.h, r))>>)

\* GetCommitMsg that uses the sampled r but does not store it
GetCommitMsgForgetsR(cm, val, r) ==
    LET stored == [cm EXCEPT !.committedValue = val]
    IN  IF val > q \/ val < 0
        THEN Outcome(cm, "error", <<>>)
        ELSE IF cm.h = Nil
             THEN Outcome(stored, "panic", <<>>)
             ELSE Outcome(stored, "ok",
                          <<Multiply(ExponentiateBaseG(val), Exponentiate(cm.h, r))>>)

\* committer.GetCommitMsg(val), with r the value GetRandomInt returned
GetCommitMsgResult(cm, val, r) ==
    IF val > q \/ val < 0
    THEN Outcome(cm, "error", <<>>)
    ELSE LET stored == [cm EXCEPT !.r = r, !.committedValue = val]
             x1 == ExponentiateBaseG(val)
         IN  IF cm.h = Nil
             THEN Outcome(stored, "panic", <<>>)
             ELSE LET x2 == Exponentiate(cm.h, r)
                      c1 == Multiply(x1, x2)
                  IN  Outcome(stored, "ok", <<c1>>)

\* committer.GetDecommitMsg()
GetDecommitMsgResult(cm) == Outcome(cm, "ok", <<cm.committedValue, cm.r>>)

\* VerifyTrapdoor that raises h, not the base point g, to the trapdoor
VerifyTrapdoorOfH(cm, trapdoor) ==
    LET hx == Exponentiate(cm.h, trapdoor)
    IN  IF cm.h = Nil
        THEN Outcome(cm, "panic", <<>>)
        ELSE Outcome(cm, "ok", <<PointEq(hx, cm.h)>>)

\* committer.VerifyTrapdoor(trapdoor)
VerifyTrapdoorResult(cm, trapdoor) ==
    LET hx == ExponentiateBaseG(trapdoor)
    IN  IF cm.h = Nil
        THEN Outcome(cm, "panic", <<>>)
        ELSE Outcome(cm, "ok", <<PointEq(hx, cm.h)>>)

----------------------------------------------------------------------------
(* PedersenECReceiver *)

\* NewPedersenECReceiver(curve), with a the value GetRandomInt returned
NewPedersenECReceiver(a) == [a |-> a, h |-> ExponentiateBaseG(a), commitment |-> Nil]

\* receiver.GetH()
GetH(s) == s.h

\* receiver.GetTrapdoor()
GetTrapdoor(s) == s.a

\* receiver.SetCommitment(el)
SetCommitmentResult(s, el) == Outcome([s EXCEPT !.commitment = el], "ok", <<>>)

\* CheckDecommitment with its two arguments used in each other's place
CheckDecommitmentArgsSwapped(s, r, val) ==
    LET c1 == Multiply(ExponentiateBaseG(r), Exponentiate(s.h, val))
    IN  IF s.commitment = Nil
        THEN Outcome(s, "panic", <<>>)
        ELSE Outcome(s, "ok", <<PointEq(c1, s.commitment)>>)

\* receiver.CheckDecommitment(r, val)
CheckDecommitmentResult(s, r, val) ==
    LET x1 == ExponentiateBaseG(val)
        x2 == Exponentiate(s.h, r)
        c1 == Multiply(x1, x2)
    IN  IF s.commitment = Nil
        THEN Outcome(s, "panic", <<>>)
        ELSE Outcome(s, "ok", <<PointEq(c1, s.commitment)>>)

----------------------------------------------------------------------------
(* The Pedersen session: one committer and one receiver *)

Call(op, in, res) == [op |-> op, in |-> in, outcome |-> res.outcome, out |-> res.out]

NoCall == [op |-> "none", in |-> <<>>, outcome |-> "ok", out |-> <<>>]

\* the values GetCommitMsg is called with
Vals == (0 - MaxOut) .. (q + MaxOut)

PedInit ==
    /\ committer = NewPedersenECCommitter
    /\ \E a \in GetRandomInt(q) : receiver = NewPedersenECReceiver(a)
    /\ ret = NoCall
    /\ lastCommit = NoCommit

\* no Pedersen objects exist in a Partial proof session
PedIdle ==
    /\ committer = NewPedersenECCommitter
    /\ receiver = [a |-> Nil, h |-> Nil, commitment |-> Nil]
    /\ ret = [op |-> "idle", in |-> <<>>, outcome |-> "ok", out |-> <<>>]
    /\ lastCommit = NoCommit

\* a nil pointer dereference ends the session
Running == ret.op # "idle" /\ ret.outcome # "panic"

\* committer.SetH(receiver.GetH())
SetH ==
    /\ Running
    /\ LET res == SetHResult(committer, GetH(receiver))
       IN  /\ committer' = res.obj
           /\ ret' = Call("SetH", <<GetH(receiver)>>, res)
    /\ UNCHANGED <<receiver, lastCommit>>
    /\ UNCHANGED partialVars
    /\ UNCHANGED serverVars
    /\ UNCHANGED callVars

\* committer.GetCommitMsg(val)
GetCommitMsg ==
    /\ Running
    /\ \E val \in Vals, r \in GetRandomInt(q) :
          LET res == GetCommitMsgResult(committer, val, r)
          IN  /\ committer' = res.obj
              /\ ret' = Call("GetCommitMsg", <<val>>, res)
              /\ lastCommit' = IF res.outcome = "ok"
                               THEN [v |-> val, r |-> r, c |-> res.out[1],
                                     again |-> lastCommit # NoCommit]
                               ELSE lastCommit
    /\ UNCHANGED receiver
    /\ UNCHANGED partialVars
    /\ UNCHANGED serverVars
    /\ UNCHANGED callVars

\* committer.GetDecommitMsg()
GetDecommitMsg ==
    /\ Running
    /\ LET res == GetDecommitMsgResult(committer)
       IN  /\ committer' = res.obj
           /\ ret' = Call("GetDecommitMsg", <<>>, res)
    /\ UNCHANGED <<receiver, lastCommit>>
    /\ UNCHANGED partialVars
    /\ UNCHANGED serverVars
    /\ UNCHANGED callVars

\* committer.VerifyTrapdoor(trapdoor)
VerifyTrapdoor ==
    /\ Running
    /\ \E trapdoor \in Scalars :
          LET res == VerifyTrapdoorResult(committer, trapdoor)
          IN  /\ committer' = res.obj
              /\ ret' = Call("VerifyTrapdoor", <<trapdoor>>, res)
    /\ UNCHANGED <<receiver, lastCommit>>
    /\ UNCHANGED partialVars
    /\ UNCHANGED serverVars
    /\ UNCHANGED callVars

\* receiver.SetCommitment(el), el the commitment the committer returned last
SetCommitment ==
    /\ Running
    /\ lastCommit # NoCommit
    /\ LET res == SetCommitmentResult(receiver, lastCommit.c)
       IN  /\ receiver' = res.obj
           /\ ret' = Call("SetCommitment", <<lastCommit.c>>, res)
    /\ UNCHANGED <<committer, lastCommit>>
    /\ UNCHANGED partialVars
    /\ UNCHANGED serverVars
    /\ UNCHANGED callVars

\* the openings the receiver is given: the committer's decommit message, or
\* whatever another peer sends
Openings ==
    {<<r, val>> \in (0 .. MaxArg) \X (0 .. MaxArg) : r < q /\ val < q}
        \cup {<<committer.r, committer.committedValue>>}

\* receiver.CheckDecommitment(r, val)
CheckDecommitment ==
    /\ Running
    /\ \E o \in Openings :
          o[1] # Nil /\
          LET r == o[1]
              val == o[2]
              res == CheckDecommitmentResult(receiver, r, val)
          IN  /\ receiver' = res.obj
              /\ ret' = Call("CheckDecommitment", <<r, val>>, res)
    /\ UNCHANGED <<committer, lastCommit>>
    /\ UNCHANGED partialVars
    /\ UNCHANGED serverVars
    /\ UNCHANGED callVars

----------------------------------------------------------------------------
(* dlogproofs.SchnorrECVerifier, the verifier the server drives *)

\* types.Sigma, types.ZKP, types.ZKPOK
ProtocolTypes == {"Sigma", "ZKP", "ZKPOK"}

\* NewSchnorrECVerifier(curve, protocolType)
NewSchnorrECVerifier(protocolType) ==
    [protocolType |-> protocolType, h |-> Nil, challenge |-> Nil, r |-> Nil,
     x |-> Nil, a |-> Nil, b |-> Nil]

\* verifier.GetOpeningMsgReply(h): commits to a fresh challenge e with randomness r
\* under the key h and returns the commitment g^e * h^r
GetOpeningMsgReply(ver, h, e, r) ==
    [ver |-> [ver EXCEPT !.h = h, !.challenge = e, !.r = r],
     commitment |-> Multiply(ExponentiateBaseG(e), Exponentiate(h, r))]

\* verifier.SetProofRandomData(x, a, b)
SchnorrSetProofRandomData(ver, x, a, b) == [ver EXCEPT !.x = x, !.a = a, !.b = b]

\* verifier.GetChallenge(): a fresh challenge e and nil in Sigma mode, the opening
\* (challenge, r) of the commitment otherwise
SchnorrGetChallenge(ver, e) ==
    IF ver.protocolType = "Sigma"
    THEN [ver |-> [ver EXCEPT !.challenge = e], challenge |-> e, r2 |-> Nil]
    ELSE [ver |-> ver, challenge |-> ver.challenge, r2 |-> ver.r]

\* verifier.Verify(z, trapdoor): a^z = x * b^e, and g^trapdoor = h in ZKPOK mode
SchnorrVerify(ver, z, trapdoor) ==
    IF ver.protocolType = "ZKPOK" /\ ExponentiateBaseG(trapdoor) # ver.h
    THEN FALSE
    ELSE PointEq(Exponentiate(ver.a, z),
                 Multiply(Exponentiate(ver.b, ver.challenge), ver.x))

----------------------------------------------------------------------------
(* Server.SchnorrEC *)

\* a pb.Message on the stream: who sent it, which Content it carries, and the content
Msg(from, type, body) == [from |-> from, type |-> type, body |-> body]

NoMsg == Msg("none", "none", <<>>)

\* what the client can put on the stream
PeerMessages ==
    {Msg("client", "EcGroupElement", <<el>>) : el \in Elems}
        \cup {Msg("client", "SchnorrEcProofRandomData", <<x, a, b>>) :
                 x \in Elems, a \in Elems, b \in Elems}
        \cup {Msg("client", "SchnorrProofData", <<z, t>>) : z \in 0 .. MaxZ, t \in 0 .. MaxZ}

\* req.GetEcGroupElement(), req.GetSchnorrEcProofRandomData(), req.GetSchnorrProofData():
\* the content, or nil when req carries another content
GetContent(req, type) == IF req.type = type THEN req.body ELSE <<>>

\* how a block of SchnorrEC leaves the server, and what it put on the stream
Step(srv, sent) == [server |-> srv, sent |-> sent]

Returned(srv, result) == [srv EXCEPT !.pc = "returned", !.result = result]

\* protocolType != types.Sigma
UsesOpening(protocolType) == protocolType # "Sigma"

\* the opening block that sends the key h back instead of the commitment
OpeningReplyEchoesH(srv, e, r, sendOk) ==
    LET h == GetContent(srv.req, "EcGroupElement")[1]
        o == GetOpeningMsgReply(srv.verifier, h, e, r)
    IN  Step([srv EXCEPT !.verifier = o.ver, !.pc = "receiveRandomData"],
             <<Msg("server", "EcGroupElement", <<h>>)>>)

\* ZKP, ZKPOK: commit to the challenge under the h of req and send the commitment
OpeningReplyResult(srv, e, r, sendOk) ==
    LET ecge == GetContent(srv.req, "EcGroupElement")
        h == ecge[1]
        o == GetOpeningMsgReply(srv.verifier, h, e, r)
        resp == Msg("server", "EcGroupElement", <<o.commitment>>)
        srv1 == [srv EXCEPT !.verifier = o.ver]
    IN  IF ~sendOk
        THEN Step(Returned(srv1, "error"), <<>>)
        ELSE Step([srv1 EXCEPT !.pc = "receiveRandomData"], <<resp>>)

\* req, err = s.receive(stream)
ReceiveResult(srv, msg, recvOk, next) ==
    IF ~recvOk
    THEN Step(Returned(srv, "error"), <<>>)
    ELSE Step([srv EXCEPT !.req = msg, !.pc = next], <<msg>>)

\* the challenge block that sends Status(false) instead of the challenge
ChallengeSendsStatus(srv, e, sendOk) ==
    LET sProofRandData == GetContent(srv.req, "SchnorrEcProofRandomData")
    IN  IF sProofRandData = <<>>
        THEN Step(Returned(srv, "panic"), <<>>)
        ELSE Step([srv EXCEPT !.pc = "receiveProofData"],
                  <<Msg("server", "Status", <<FALSE>>)>>)

\* set the random data, get the challenge and send it as a PedersenDecommitment
ChallengeResult(srv, e, sendOk) ==
    LET sProofRandData == GetContent(srv.req, "SchnorrEcProofRandomData")
    IN  IF sProofRandData = <<>>
        THEN \* sProofRandData.X on a nil pointer
             Step(Returned(srv, "panic"), <<>>)
        ELSE LET ver1 == SchnorrSetProofRandomData(srv.verifier, sProofRandData[1],
                                                   sProofRandData[2], sProofRandData[3])
                 ch == SchnorrGetChallenge(ver1, e)
                 r2 == IF ch.r2 = Nil THEN 0 ELSE ch.r2
                 resp == Msg("server", "PedersenDecommitment", <<ch.challenge, r2>>)
                 srv1 == [srv EXCEPT !.verifier = ch.ver]
             IN  IF ~sendOk
                 THEN Step(Returned(srv1, "error"), <<>>)
                 ELSE Step([srv1 EXCEPT !.pc = "receiveProofData"], <<resp>>)

\* verify the proof data and send the Status
StatusResult(srv, sendOk) ==
    LET sProofData == GetContent(srv.req, "SchnorrProofData")
    IN  IF sProofData = <<>>
        THEN \* sProofData.Z on a nil pointer
             Step(Returned(srv, "panic"), <<>>)
        ELSE LET valid == SchnorrVerify(srv.verifier, sProofData[1], sProofData[2])
                 resp == Msg("server", "Status", <<valid>>)
             IN  IF ~sendOk
                 THEN Step(Returned(srv, "error"), <<>>)
                 ELSE Step(Returned(srv, "nil"), <<resp>>)

\* SchnorrEC(req, protocolType, stream, curve) was called with the first message
ServerInit ==
    \E protocolType \in ProtocolTypes, req \in PeerMessages :
        /\ UsesOpening(protocolType) => req.type = "EcGroupElement"
        /\ server = [protocolType |-> protocolType, pc |-> "entry", req |-> req,
                     verifier |-> NewSchnorrECVerifier(protocolType), result |-> "running"]
        /\ stream = <<req>>

\* no SchnorrEC session is run
ServerIdle ==
    /\ server = [protocolType |-> "Sigma", pc |-> "idle", req |-> NoMsg,
                 verifier |-> NewSchnorrECVerifier("Sigma"), result |-> "running"]
    /\ stream = <<>>

Apply(step) ==
    /\ server' = step.server
    /\ stream' = stream \o step.sent
    /\ UNCHANGED partialVars
    /\ UNCHANGED pedVars
    /\ UNCHANGED callVars

\* lines 33-48
OpeningReply ==
    /\ server.pc = "entry"
    /\ UsesOpening(server.protocolType)
    /\ \E e \in GetRandomInt(q), r \in GetRandomInt(q), sendOk \in BOOLEAN :
          Apply(OpeningReplyResult(server, e, r, sendOk))

\* lines 50-53
ReceiveRandomData ==
    /\ server.pc = "receiveRandomData"
    /\ \E msg \in PeerMessages, recvOk \in BOOLEAN :
          Apply(ReceiveResult(server, msg, recvOk, "randomData"))

\* lines 56-80
SendChallenge ==
    /\ \/ server.pc = "randomData"
       \/ server.pc = "entry" /\ ~UsesOpening(server.protocolType)
    /\ \E e \in GetRandomInt(q), sendOk \in BOOLEAN :
          Apply(ChallengeResult(server, e, sendOk))

\* lines 82-85
ReceiveProofData ==
    /\ server.pc = "receiveProofData"
    /\ \E msg \in PeerMessages, recvOk \in BOOLEAN :
          Apply(ReceiveResult(server, msg, recvOk, "proofData"))

\* lines 87-100
SendStatus ==
    /\ server.pc = "proofData"
    /\ \E sendOk \in BOOLEAN : Apply(StatusResult(server, sendOk))

----------------------------------------------------------------------------
(* Callers that do not follow the protocol order *)

\* prover.GetProofData that forgets the nonce r1 once it has answered
GetProofDataConsumesNonce(p, challenge) ==
    IF p.c2 = Nil
    THEN Outcome(p, "panic", <<>>)
    ELSE Outcome([p EXCEPT !.r1 = Nil], "ok", GetProofDataResult(p, challenge))

\* prover.GetProofData(challenge) on any prover state
GetProofDataCall(p, challenge) ==
    IF p.c2 = Nil
    THEN \* Xor on a nil big.Int
         Outcome(p, "panic", <<>>)
    ELSE Outcome(p, "ok", GetProofDataResult(p, challenge))

\* verifier.SetProofRandomData(triple1, triple2)
SetProofRandomDataCall(v, triple1, triple2) ==
    Outcome([v EXCEPT !.triple1 = triple1, !.triple2 = triple2], "ok", <<>>)

\* verifier.GetChallenge()
GetChallengeCall(v, challenge) ==
    Outcome([v EXCEPT !.challenge = challenge], "ok", <<challenge>>)

\* verifier.Verify that forgets the challenge once it has compared it
VerifyConsumesChallenge(v, c1, z1, c2, z2) ==
    IF v.challenge = Nil
    THEN Outcome(v, "panic", <<>>)
    ELSE IF Xor(c1, c2) = v.challenge /\ (v.triple1 = NilTriple \/ v.triple2 = NilTriple)
    THEN Outcome(v, "panic", <<>>)
    ELSE Outcome([v EXCEPT !.challenge = Nil], "ok", <<VerifyResult(v, c1, z1, c2, z2)>>)

\* verifier.Verify(c1, z1, c2, z2) on any verifier state
VerifyCall(v, c1, z1, c2, z2) ==
    IF v.challenge = Nil
    THEN \* Cmp with a nil big.Int
         Outcome(v, "panic", <<>>)
    ELSE IF Xor(c1, c2) = v.challenge /\ (v.triple1 = NilTriple \/ v.triple2 = NilTriple)
    THEN \* triple.B on a nil triple
         Outcome(v, "panic", <<>>)
    ELSE Outcome(v, "ok", <<VerifyResult(v, c1, z1, c2, z2)>>)

\* the call before the new one, kept when the new one repeats it
SameCall(op, in) == IF call.op = op /\ call.in = in THEN call ELSE NoCall

\* no caller of this kind
CallsIdle == call = NoCall /\ prior = NoCall

\* fresh objects and a caller that will use one of them
CallsInit ==
    /\ prover = NewPartialECDLogProver
    /\ verifier = NewPartialECDLogVerifier
    /\ randData = NoData
    /\ chal = Nil
    /\ proofData = NoData
    /\ verified = FALSE
    /\ CallsIdle
    /\ \/ pc \in {"proverCalls", "verifierCalls"} /\ PedIdle
       \/ pc = "receiverCalls" /\ PedInit

Returns == call.outcome # "panic"

\* prover.GetProofRandomData(secret1, a1, b1, a2, b2), on a prover that holds no nonce
CallGetProofRandomData ==
    /\ pc = "proverCalls"
    /\ Returns
    /\ prover.r1 = Nil
    /\ \E secret1 \in Scalars, a1 \in Elems, a2 \in Elems,
          r1 \in GetRandomInt(q), c2 \in GetRandomInt(q), z2 \in GetRandomInt(q),
          ord \in GetRandomInt(2) :
          prover' = ProverAfterRandomData(secret1, a1, a2, r1, c2, z2, ord)
    /\ call' = [op |-> "GetProofRandomData", in |-> <<>>, outcome |-> "ok", out |-> <<>>]
    /\ prior' = NoCall
    /\ UNCHANGED <<verifier, randData, chal, proofData, verified, pc>>
    /\ UNCHANGED pedVars
    /\ UNCHANGED serverVars

\* prover.GetProofData(challenge), challenge one the verifier can draw
CallGetProofData ==
    /\ pc = "proverCalls"
    /\ Returns
    /\ \E challenge \in GetRandomInt(q) :
          LET res == GetProofDataCall(prover, challenge)
          IN  /\ prover' = res.obj
              /\ call' = Call("GetProofData", <<challenge>>, res)
    /\ prior' = NoCall
    /\ UNCHANGED <<verifier, randData, chal, proofData, verified, pc>>
    /\ UNCHANGED pedVars
    /\ UNCHANGED serverVars

\* verifier.SetProofRandomData(triple1, triple2), the peer sending one triple twice
CallSetProofRandomData ==
    /\ pc = "verifierCalls"
    /\ Returns
    /\ \E x \in Elems, a \in Elems, b \in Elems :
          LET res == SetProofRandomDataCall(verifier, NewECTriple(x, a, b),
                                            NewECTriple(x, a, b))
          IN  /\ verifier' = res.obj
              /\ call' = Call("SetProofRandomData", <<>>, res)
    /\ prior' = NoCall
    /\ UNCHANGED <<prover, randData, chal, proofData, verified, pc>>
    /\ UNCHANGED pedVars
    /\ UNCHANGED serverVars

\* verifier.GetChallenge()
CallGetChallenge ==
    /\ pc = "verifierCalls"
    /\ Returns
    /\ \E challenge \in GetRandomInt(q) :
          LET res == GetChallengeCall(verifier, challenge)
          IN  /\ verifier' = res.obj
              /\ call' = Call("GetChallenge", <<>>, res)
    /\ prior' = NoCall
    /\ UNCHANGED <<prover, randData, chal, proofData, verified, pc>>
    /\ UNCHANGED pedVars
    /\ UNCHANGED serverVars

\* verifier.Verify(c1, z1, c2, z2), the peer sending one response twice
CallVerify ==
    /\ pc = "verifierCalls"
    /\ Returns
    /\ \E c1 \in 0 .. MaxC, z1 \in 0 .. MaxZ, c2 \in 0 .. MaxC :
          LET z2 == z1
              res == VerifyCall(verifier, c1, z1, c2, z2)
          IN  /\ verifier' = res.obj
              /\ call' = Call("Verify", <<c1, z1, c2, z2>>, res)
              /\ prior' = SameCall("Verify", <<c1, z1, c2, z2>>)
    /\ UNCHANGED <<prover, randData, chal, proofData, verified, pc>>
    /\ UNCHANGED pedVars
    /\ UNCHANGED serverVars

\* receiver.SetCommitment(el), el whatever the peer sent
CallSetCommitment ==
    /\ pc = "receiverCalls"
    /\ Returns
    /\ \E el \in Elems :
          LET res == SetCommitmentResult(receiver, el)
          IN  /\ receiver' = res.obj
              /\ call' = Call("SetCommitment", <<el>>, res)
    /\ prior' = NoCall
    /\ UNCHANGED <<committer, ret, lastCommit>>
    /\ UNCHANGED partialVars
    /\ UNCHANGED serverVars

\* receiver.CheckDecommitment(r, val), the opening whatever the peer sent
CallCheckDecommitment ==
    /\ pc = "receiverCalls"
    /\ Returns
    /\ \E r \in 0 .. MaxArg, val \in 0 .. MaxArg :
          LET res == CheckDecommitmentResult(receiver, r, val)
          IN  /\ receiver' = res.obj
              /\ call' = Call("CheckDecommitment", <<r, val>>, res)
              /\ prior' = SameCall("CheckDecommitment", <<r, val>>)
    /\ UNCHANGED <<committer, ret, lastCommit>>
    /\ UNCHANGED partialVars
    /\ UNCHANGED serverVars

----------------------------------------------------------------------------
(* Specifications *)

\* ProvePartialECDLogKnowledge: an honest prover and the verifier
InitPartial == PartialInit /\ PedIdle /\ ServerIdle /\ CallsIdle

NextPartial ==
    \/ GetProofRandomData
    \/ SetProofRandomData
    \/ GetChallenge
    \/ GetProofData
    \/ Verify

SpecPartial == InitPartial /\ [][NextPartial]_vars

\* the verifier against a peer that sends arbitrary triples and scalars
InitVerifier ==
    /\ prover = NewPartialECDLogProver
    /\ verifier = NewPartialECDLogVerifier
    /\ randData = NoData
    /\ chal = Nil
    /\ proofData = NoData
    /\ verified = FALSE
    /\ pc = "peer"
    /\ PedIdle
    /\ ServerIdle
    /\ CallsIdle

NextVerifier ==
    \/ PeerRandomData
    \/ SetProofRandomData
    \/ GetChallenge
    \/ PeerProofData
    \/ Verify

SpecVerifier == InitVerifier /\ [][NextVerifier]_vars

\* a Pedersen committer and receiver, their methods called in any order
InitPed == PedInit /\ PartialIdle /\ ServerIdle /\ CallsIdle

NextPed ==
    \/ SetH
    \/ GetCommitMsg
    \/ GetDecommitMsg
    \/ VerifyTrapdoor
    \/ SetCommitment
    \/ CheckDecommitment

SpecPed == InitPed /\ [][NextPed]_vars

\* one Server.SchnorrEC session against an arbitrary client
InitServer == ServerInit /\ PartialIdle /\ PedIdle /\ CallsIdle

NextServer ==
    \/ OpeningReply
    \/ ReceiveRandomData
    \/ SendChallenge
    \/ ReceiveProofData
    \/ SendStatus

SpecServer == InitServer /\ [][NextServer]_vars

\* the prover, the verifier or the receiver, its methods called in any order
InitCalls == CallsInit /\ ServerIdle

NextCalls ==
    \/ CallGetProofRandomData
    \/ CallGetProofData
    \/ CallSetProofRandomData
    \/ CallGetChallenge
    \/ CallVerify
    \/ CallSetCommitment
    \/ CallCheckDecommitment

SpecCalls == InitCalls /\ [][NextCalls]_vars

Init == InitPartial \/ InitVerifier \/ InitPed \/ InitServer \/ InitCalls

Next == NextPartial \/ NextVerifier \/ NextPed \/ NextServer \/ NextCalls

Spec == Init /\ [][Next]_vars

----------------------------------------------------------------------------
(* Vocabulary of the properties *)

\* the verification equation a^z = x * b^c of the statement (a, b) with first message x
Accepts(x, a, b, c, z) == Exponentiate(a, z) = Multiply(x, Exponentiate(b, c))

\* number of bits of the XOR space [0, 2^XorBits), the smallest that holds all of [0, q)
XorBits == CHOOSE k \in 0 .. q : 2^k >= q /\ (k = 0 \/ 2^(k - 1) < q)

BitAt(n, i) == (n \div (2^i)) % 2

\* c1 XOR c2 = e, bit by bit
XorEquals(c1, c2, e) ==
    /\ c1 < 2^XorBits /\ c2 < 2^XorBits /\ e < 2^XorBits
    /\ \A i \in 0 .. (XorBits - 1) : BitAt(e, i) = (BitAt(c1, i) + BitAt(c2, i)) % 2

\* the i-th (c, z) pair in flight satisfies the equation of the i-th triple in flight
PairFitsTriple(i) ==
    Accepts(randData[i].A, randData[i].B, randData[i].C,
            proofData[2 * i - 1], proofData[2 * i])

----------------------------------------------------------------------------
(* Partial proof *)

\* C1: an honest run GetProofRandomData -> SetProofRandomData -> GetChallenge ->
\* GetProofData -> Verify returns true for every secret1, a1, a2, b2, every sampled
\* r1, c2, z2, every challenge and both values of ord, and the i-th (c, z) pair
\* returned by GetProofData belongs to the i-th triple of GetProofRandomData.
PartialCompleteness ==
    /\ pc = "done" => verified = TRUE
    /\ pc \in {"proof", "done"} => PairFitsTriple(1) /\ PairFitsTriple(2)

\* an accepted run with the triples exchanged and a real challenge share above q
PartialCompletenessWitness ==
    /\ pc = "done"
    /\ verified = TRUE
    /\ prover.ord = 1
    /\ proofData[3] >= q
    /\ prover.secret1 > 1
    /\ prover.a1 # 0
    /\ randData[1].C # 0

\* C2: Verify(c1, z1, c2, z2) after SetProofRandomData and GetChallenge returns true
\* exactly when c1 XOR c2 is the stored challenge and a_i^z_i = x_i * b_i^c_i holds
\* for both stored triples; otherwise it returns false.
VerifyIffXorAndBothTriples ==
    pc = "done" =>
        /\ verified \in BOOLEAN
        /\ verified =
            (/\ XorEquals(proofData[1], proofData[3], verifier.challenge)
             /\ Accepts(verifier.triple1.A, verifier.triple1.B, verifier.triple1.C,
                        proofData[1], proofData[2])
             /\ Accepts(verifier.triple2.A, verifier.triple2.B, verifier.triple2.C,
                        proofData[3], proofData[4]))

\* Verify accepted scalars of a peer whose triples have distinct first and second fields
VerifyIffWitness ==
    /\ pc = "done"
    /\ prover.r1 = Nil
    /\ verified = TRUE
    /\ proofData[1] > 0
    /\ proofData[3] > 0
    /\ proofData[2] > 0
    /\ verifier.triple1.A # verifier.triple1.B
    /\ verifier.triple2.A # verifier.triple2.B

\* C3: the two challenge shares returned by GetProofData, in either order, XOR to
\* the challenge exactly.
ChallengeXorLaw ==
    pc \in {"proof", "done"} => XorEquals(proofData[1], proofData[3], chal)

\* GetProofData returned a real share that is not reduced mod q, in second position
ChallengeXorLawWitness ==
    /\ pc = "proof"
    /\ prover.ord = 1
    /\ proofData[3] >= q
    /\ proofData[1] > 0
    /\ chal > 0

----------------------------------------------------------------------------
(* Pedersen commitment *)

Called(op) == ret.op = op

\* the opening a decommit message of the committer would carry
CommitterOpening == GetDecommitMsgResult(committer).out

\* C4: GetCommitMsg(v) fails with the out-of-range error for every v outside
\* [0, q), v = q included.
OutOfRangeValueRejected ==
    (Called("GetCommitMsg") /\ committer.h # Nil /\ ret.in[1] \notin Scalars)
        => ret.outcome = "error"

\* C5: a GetCommitMsg(v) that fails because v is out of range writes no committer
\* field: committedValue, r and h are what they were before the call, and the
\* decommit message is still the opening of the latest successful commitment.
FailedCommitWritesNothing ==
    [][(Called("GetCommitMsg")' /\ ret'.outcome = "error")
          => /\ committer' = committer
             /\ lastCommit' = lastCommit
             /\ (lastCommit # NoCommit
                   => GetDecommitMsgResult(committer').out = <<lastCommit.v, lastCommit.r>>)]_vars

\* an out-of-range value was refused after a successful commitment
FailedCommitWitness ==
    /\ Called("GetCommitMsg")
    /\ ret.outcome = "error"
    /\ ret.in[1] > q
    /\ lastCommit # NoCommit
    /\ CommitterOpening = <<lastCommit.v, lastCommit.r>>

\* C6: GetCommitMsg(v) with v in range on a committer without h returns an error
\* to the caller instead of crashing.
CommitWithoutHReturnsError ==
    (Called("GetCommitMsg") /\ ret.in[1] \in Scalars /\ committer.h = Nil)
        => (ret.outcome = "error" /\ committer.committedValue = Nil /\ committer.r = Nil)

\* C7: CheckDecommitment(r, val) returns a boolean in every receiver state, also
\* before SetCommitment stored a commitment.
CheckDecommitmentNeverThrows ==
    Called("CheckDecommitment") => (ret.outcome = "ok" /\ ret.out[1] \in BOOLEAN)

\* C8: with h = receiver.GetH() and the latest commitment stored by SetCommitment,
\* GetDecommitMsg returns exactly the committed v and the r used, and
\* CheckDecommitment of that opening returns true, also after earlier commitments.
CommitDecommitRoundTrip ==
    /\ (Called("GetDecommitMsg") /\ lastCommit # NoCommit)
          => ret.out = <<lastCommit.v, lastCommit.r>>
    /\ (/\ Called("CheckDecommitment")
        /\ lastCommit # NoCommit
        /\ lastCommit.v \in Scalars
        /\ committer.h = GetH(receiver)
        /\ receiver.commitment = lastCommit.c
        /\ ret.in = <<lastCommit.r, lastCommit.v>>)
          => (ret.outcome = "ok" /\ ret.out = <<TRUE>>)

\* the opening of a second or later commitment to a non-zero value was accepted
RoundTripWitness ==
    /\ Called("CheckDecommitment")
    /\ lastCommit # NoCommit
    /\ lastCommit.again
    /\ lastCommit.v \in Scalars \ {0}
    /\ lastCommit.r # 0
    /\ receiver.a > 1
    /\ receiver.commitment = lastCommit.c
    /\ ret.in = <<lastCommit.r, lastCommit.v>>
    /\ ret.in = CommitterOpening
    /\ ret.out = <<TRUE>>

\* the receiver holds the latest commitment and was asked to check (r', v')
CheckedAgainstLatest ==
    /\ Called("CheckDecommitment")
    /\ ret.outcome = "ok"
    /\ lastCommit # NoCommit
    /\ committer.h = GetH(receiver)
    /\ receiver.commitment = lastCommit.c

\* C9 as stated: every (v', r') in [0,q) x [0,q) other than the opening (v, r) of
\* the stored commitment is refused (looked at for a trapdoor a # 0 only, where
\* h generates the group).
EveryOtherOpeningRefused ==
    (/\ CheckedAgainstLatest
     /\ receiver.a # 0
     /\ ret.in[1] \in Scalars /\ ret.in[2] \in Scalars
     /\ ret.in # <<lastCommit.r, lastCommit.v>>)
        => ret.out = <<FALSE>>

\* C9, amended: with a the receiver's trapdoor, CheckDecommitment(r', v') against
\* the stored commitment to (v, r) returns false exactly when
\* v' + a*r' and v + a*r differ mod q; so it refuses every (v', r') with r' = r
\* and v' different from v mod q.
OtherOpeningRefusedUnlessCongruent ==
    CheckedAgainstLatest =>
        /\ ret.out = <<(ret.in[2] + receiver.a * ret.in[1]) % q
                          = (lastCommit.v + receiver.a * lastCommit.r) % q>>
        /\ (ret.in[1] = lastCommit.r /\ (ret.in[2] % q) # (lastCommit.v % q))
              => ret.out = <<FALSE>>

\* an opening that differs from the committed one in both components was refused
OtherOpeningWitness ==
    /\ CheckedAgainstLatest
    /\ receiver.a > 1
    /\ ret.in[1] # lastCommit.r
    /\ ret.in[2] # lastCommit.v
    /\ lastCommit.v \in Scalars
    /\ ret.out = <<FALSE>>

\* C10: for the h the committer got from the receiver and every v in [0, q), the
\* commitments GetCommitMsg(v) can return over the sampled r are all of G, each
\* for exactly one r.
PerfectHiding ==
    committer.h # Nil =>
        \A v \in Scalars :
            /\ {GetCommitMsgResult(committer, v, r).out[1] : r \in GetRandomInt(q)} = Group
            /\ \A r1 \in GetRandomInt(q), r2 \in GetRandomInt(q) :
                  GetCommitMsgResult(committer, v, r1).out = GetCommitMsgResult(committer, v, r2).out
                      => r1 = r2

\* C11: VerifyTrapdoor(t) returns true exactly when g^t is the h set by SetH: true
\* for the receiver's trapdoor when h = receiver.GetH(), false for every other t
\* in [0, q).
VerifyTrapdoorIffTrapdoor ==
    (Called("VerifyTrapdoor") /\ committer.h # Nil /\ committer.h = GetH(receiver))
        => /\ ret.outcome = "ok"
           /\ ret.out = <<ret.in[1] = GetTrapdoor(receiver)>>
           /\ ret.out = <<ExponentiateBaseG(ret.in[1]) = committer.h>>

\* the receiver's trapdoor, neither 0 nor 1, was accepted
VerifyTrapdoorWitness ==
    /\ Called("VerifyTrapdoor")
    /\ committer.h = GetH(receiver)
    /\ GetTrapdoor(receiver) > 1
    /\ ret.in = <<GetTrapdoor(receiver)>>
    /\ ret.out = <<TRUE>>

----------------------------------------------------------------------------
(* Server.SchnorrEC: the wire schedule *)

InSession == server.pc # "idle"

WithOpening == server.protocolType \in {"ZKP", "ZKPOK"}

\* the positions of the stream, and those of the server's and the client's messages
Positions == 1 .. Len(stream)

SentAt(i) == i \in Positions /\ stream[i].from = "server"

ReceivedAt(i) == i \in Positions /\ stream[i].from = "client"

RECURSIVE TypesFrom(_, _)
TypesFrom(from, i) ==
    IF i > Len(stream) THEN <<>>
    ELSE IF stream[i].from = from THEN <<stream[i].type>> \o TypesFrom(from, i + 1)
    ELSE TypesFrom(from, i + 1)

\* the types of the messages the server has sent, in order
ServerSent == TypesFrom("server", 1)

ClientSent == TypesFrom("client", 1)

IsPrefix(s, t) == Len(s) <= Len(t) /\ \A i \in 1 .. Len(s) : s[i] = t[i]

\* g^e * h^r
Commits(c, h, e, r) == c = Multiply(ExponentiateBaseG(e), Exponentiate(h, r))

\* C12 (as stated): in ZKP and ZKPOK mode the first message of the session is the key h
\* and it is the server, the verifier side, that sends it.
KeyTravelsFromVerifier ==
    (InSession /\ WithOpening) => (stream[1].from = "server" /\ stream[1].type = "EcGroupElement")

\* C12: in ZKP and ZKPOK mode the first message of the session is the key h and it travels
\* from the client (prover) to the server (verifier); the server's first message is not h
\* but the commitment g^e * h^r_c under the received h, and the PedersenDecommitment it
\* sends later is the opening (e, r_c) of that commitment.
KeyTravelsFromProver ==
    (InSession /\ WithOpening) =>
        /\ stream[1].from = "client" /\ stream[1].type = "EcGroupElement"
        /\ Len(stream) >= 2 =>
              /\ stream[2].from = "server" /\ stream[2].type = "EcGroupElement"
              /\ server.verifier.h = stream[1].body[1]
              /\ Commits(stream[2].body[1], stream[1].body[1],
                         server.verifier.challenge, server.verifier.r)
        /\ \A i \in Positions :
              stream[i].type = "PedersenDecommitment" =>
                  Commits(stream[2].body[1], stream[1].body[1],
                          stream[i].body[1], stream[i].body[2])

KeyTravelsWitness ==
    /\ InSession /\ WithOpening
    /\ stream[1].body[1] # 0
    /\ \E i \in Positions :
          /\ stream[i].type = "PedersenDecommitment"
          /\ stream[i].body[2] # 0
          /\ stream[2].body[1] # stream[1].body[1]

\* the schedule of the server's messages in the session's mode
Schedule ==
    IF WithOpening THEN <<"EcGroupElement", "PedersenDecommitment", "Status">>
    ELSE <<"PedersenDecommitment", "Status">>

\* C13: sends and receives strictly alternate, starting with a receive; the server's
\* messages are EcGroupElement, PedersenDecommitment, Status in ZKP and ZKPOK mode and
\* PedersenDecommitment, Status in Sigma mode, in that order and all of them when the
\* session returns nil; the decommitment directly follows a received
\* SchnorrEcProofRandomData and, with the opening, the sent commitment; Status directly
\* follows a received SchnorrProofData.
MessageSchedule ==
    InSession =>
        /\ ReceivedAt(1)
        /\ \A i \in Positions : i + 1 \in Positions => stream[i].from # stream[i + 1].from
        /\ IsPrefix(ServerSent, Schedule)
        /\ server.result = "nil" => ServerSent = Schedule
        /\ \A i \in Positions :
              (SentAt(i) /\ stream[i].type = "PedersenDecommitment") =>
                  /\ ReceivedAt(i - 1) /\ stream[i - 1].type = "SchnorrEcProofRandomData"
                  /\ WithOpening => (SentAt(i - 2) /\ stream[i - 2].type = "EcGroupElement")
        /\ \A i \in Positions :
              (SentAt(i) /\ stream[i].type = "Status") =>
                  (ReceivedAt(i - 1) /\ stream[i - 1].type = "SchnorrProofData")

MessageScheduleWitness ==
    /\ InSession /\ WithOpening
    /\ server.result = "nil"
    /\ Len(ServerSent) = 3
    /\ stream[Len(stream)].body = <<TRUE>>

\* the content the server expects in the message it received last
ExpectedType ==
    LET n == Len(ClientSent) - (IF WithOpening THEN 1 ELSE 0)
    IN  IF n = 0 THEN "EcGroupElement"
        ELSE IF n = 1 THEN "SchnorrEcProofRandomData"
        ELSE "SchnorrProofData"

\* C14: a session whose last received message is of an unexpected type returns an error
\* to the caller; the server does not crash and sends nothing in response to that message.
UnexpectedTypeRejected ==
    (InSession /\ server.pc = "returned" /\ server.req.type # ExpectedType) =>
        /\ server.result = "error"
        /\ ReceivedAt(Len(stream))

Accept ==
    /\ server.result = "nil"
    /\ stream[Len(stream)] = Msg("server", "Status", <<TRUE>>)

RejectVerification ==
    /\ server.result = "nil"
    /\ stream[Len(stream)] = Msg("server", "Status", <<FALSE>>)

AbortError ==
    /\ server.result = "error"
    /\ \A i \in Positions : stream[i].type # "Status"

\* C15: a session that has ended has ended in accept, reject-verification or abort-error;
\* Status is sent at most once and is the last message of the session.
ThreeOutcomes ==
    /\ (InSession /\ server.pc = "returned") => (Accept \/ RejectVerification \/ AbortError)
    /\ \A i \in Positions : stream[i].type = "Status" => i = Len(stream)

----------------------------------------------------------------------------
(* Partial proof: what the prover transmits *)

\* C16: each of the four scalars GetProofData returns lies in [0, q).
ProofDataReduced ==
    (pc \in {"proof", "done"} /\ prover.r1 # Nil) =>
        \A i \in 1 .. 4 : proofData[i] >= 0 /\ proofData[i] < q

\* the triple of the branch the prover simulates, as it was sent
SimulatedTriple == IF prover.ord = 0 THEN randData[2] ELSE randData[1]

\* C19: the simulated triple (x2, a2, b2) of GetProofRandomData satisfies
\* verifyTriple(triple, c2, z2) for every a2, b2 and every sampled c2, z2, before and
\* after the verifier's challenge is drawn and whatever it is.
SimulatedBranchVerifies ==
    (pc \in {"random", "set", "challenge", "proof", "done"} /\ prover.r1 # Nil) =>
        /\ SimulatedTriple.B = prover.a2
        /\ verifyTriple(SimulatedTriple, prover.c2, prover.z2)

\* b2 is not a power of a2, so no witness for the simulated branch exists
SimulatedBranchWitness ==
    /\ pc = "challenge"
    /\ prover.r1 # Nil
    /\ SimulatedTriple.B = 0
    /\ SimulatedTriple.C # 0
    /\ prover.c2 > 1
    /\ prover.z2 > 0
    /\ chal # prover.c2
    /\ prover.ord = 1

----------------------------------------------------------------------------
(* Calls outside the protocol order *)

CallReturned(op) == call.op = op /\ call.outcome = "ok"

\* the simulated and the real pair among the four scalars GetProofData returned
SimulatedPair(out) == IF prover.ord = 0 THEN <<out[3], out[4]>> ELSE <<out[1], out[2]>>

RealPair(out) == IF prover.ord = 0 THEN <<out[1], out[2]>> ELSE <<out[3], out[4]>>

\* C17: GetProofData is executed only as the first call after GetProofRandomData, and
\* Verify only on a verifier that has drawn its challenge; in every other state the call
\* is rejected with an error, so one nonce r1 never answers two challenges.
WrongStateCallsRejected ==
    [][/\ (call'.op = "GetProofData" /\ call' # call) =>
              IF call.op = "GetProofRandomData"
              THEN call'.outcome = "ok"
              ELSE call'.outcome = "error"
       /\ (call'.op = "Verify" /\ verifier.challenge = Nil) => call'.outcome = "error"]_vars

\* C18: Verify leaves every field of the verifier unchanged and CheckDecommitment every
\* field of the receiver, and a call repeated with the same arguments ends as the first
\* one did, with the same boolean.
VerifyIsPure ==
    /\ [](prior.op \in {"Verify", "CheckDecommitment"} =>
              (call.outcome = prior.outcome /\ call.out = prior.out))
    /\ [][/\ call'.op = "Verify" => verifier' = verifier
          /\ call'.op = "CheckDecommitment" => receiver' = receiver]_vars

\* Verify was called twice with a response that it accepts
VerifyIsPureWitness ==
    /\ prior.op = "Verify"
    /\ call.out = <<TRUE>>
    /\ verifier.triple1.B # 0
    /\ verifier.challenge > 0
    /\ call.in[2] > 0

\* C20: GetProofData leaves every field of the prover unchanged; the simulated pair it
\* returns is the (c2, z2) of GetProofRandomData, second if ord = 0 and first if ord = 1,
\* the same for every challenge, and the real share c1 differs for different challenges.
GetProofDataKeepsProver ==
    /\ [](CallReturned("GetProofData") =>
              /\ SimulatedPair(call.out) = <<prover.c2, prover.z2>>
              /\ RealPair(call.out)[1] = Xor(prover.c2, call.in[1]))
    /\ [][call'.op = "GetProofData" => prover' = prover]_vars
    /\ [][(CallReturned("GetProofData") /\ call'.op = "GetProofData"
              /\ call'.outcome = "ok") =>
              /\ SimulatedPair(call'.out) = SimulatedPair(call.out)
              /\ call'.in # call.in => RealPair(call'.out)[1] # RealPair(call.out)[1]]_vars

\* GetProofData answered a challenge with the simulated pair in first position
GetProofDataKeepsProverWitness ==
    /\ CallReturned("GetProofData")
    /\ prover.ord = 1
    /\ call.in[1] > 0
    /\ prover.c2 > 0
    /\ prover.z2 # prover.c2
    /\ RealPair(call.out) # SimulatedPair(call.out)

====
